---- MODULE Spec2Model ----
(***************************************************************************)
(* Artificial Bee Colony search (bees.py): the generator bee_search, the   *)
(* hive's three lists of bees, the food sources they hold and the          *)
(* three-phase loop.                                                       *)
(*                                                                         *)
(* A location is abstracted to its dimension and the region of the search  *)
(* space it lies in; the objective is given by the set of values it may    *)
(* return in each region (one value per region: a deterministic objective; *)
(* several: one whose value can differ between two evaluations).  Every    *)
(* draw of the random generator is a nondeterministic choice.              *)
(***************************************************************************)
EXTENDS Integers, Sequences, FiniteSets, TLC

\* ---------------------------------------------------------------- bounds
MaxDim == 3
NumLocs == 2
MaxObj == 2
MaxWorkers == 2
MaxOnlookers == 1
MaxScouts == 1
MaxLimit == 2
MaxIter == 2
FlatIter == 2
ColonyWorkers == 3
ColonyScouts == 2
ColonyLimit == 1
ColonyIter == 3

\* ------------------------------------------------------ program constants
DefaultNBees == 10
DefaultNScouts == 1
DefaultLimit == 5

VARIABLES
    search_space,       \* <<rows, cols>>: the shape of the bounds array
    minimize,
    n_bees,
    n_workers,
    n_scouts,
    max_iter,
    limit,
    obj_func,           \* region -> set of values the objective may return there
    pc,                 \* position of the generator
    error,              \* the exception that ended the run, or "none"
    i,                  \* loop variable of the algorithm loop
    idx,                \* position of the list iterator of the running for loop
    foods,              \* the Food objects created so far, by identity
    workers,            \* hive.bees['workers']
    onlookers,          \* hive.bees['onlookers']
    scouts,             \* hive.bees['scouts']
    nextBee,            \* identity of the next bee object constructed
    best_quality_food,  \* identity of the best food, 0 before it is assigned
    choreography,       \* rows <<food, |quality|>> of the current onlooker phase
    sum_dances,
    probabilities,      \* None, or one float64 quotient (see divide) per row
    calls,              \* number of calls of obj_func made so far
    new_solution_evaluation,  \* the local of lines 101 and 147, None before
    snapshots           \* the pairs <<i, food>> yielded so far

vars == <<search_space, minimize, n_bees, n_workers, n_scouts, max_iter, limit,
          obj_func, pc, error, i, idx, foods, workers, onlookers, scouts,
          nextBee, best_quality_food, choreography, sum_dances, probabilities,
          calls, new_solution_evaluation, snapshots>>

config == <<search_space, minimize, n_bees, n_workers, n_scouts, max_iter,
            limit, obj_func>>

\* ---------------------------------------------------------------- helpers
None == <<>>

Abs(x) == IF x < 0 THEN -x ELSE x

ObjVals == 0..MaxObj

Locs == DOMAIN obj_func

\* lines 39-44: fitness is obj_func, negated when minimize is set.
fitness(at) == {IF minimize THEN (0 - 1) * v ELSE v : v \in obj_func[at]}

FitnessVals == UNION {fitness(at) : at \in Locs}

\* Bee.calculate_nectar: the values one evaluation at the food's location may give.
calculate_nectar(location) == fitness(location.at)

\* Food.__init__
Food(location, quality, quantity) ==
    [location |-> location, quality |-> quality, quantity |-> quantity]

\* has_food with >= in place of >: true of an empty source.
has_food_or_empty(food) == food.quantity >= 0

\* Food.has_food (lines 293-294)
has_food(food) == food.quantity > 0

\* Food.is_exhausted (lines 296-297)
is_exhausted(food) == food.quantity = 0

\* A bee object: its identity and its food reference (0 is None).
Bee(id, food) == [id |-> id, food |-> food]

\* EmployedBee.should_leave
should_leave(fs, bee) == is_exhausted(fs[bee.food])

\* EmployedBee.bring_food
bring_food(fs, bee) == [fs EXCEPT ![bee.food].quantity = @ - 1]

\* EmployedBee.dance evaluates the objective only when no quality is cached.
dance_evaluates(fs, fid) == fs[fid].quality = None

\* dance without the "quality is None" test: every dance stores a new evaluation.
dance_overwrites(fs, fid, q) == [fs EXCEPT ![fid].quality = <<q>>]

\* EmployedBee.dance: q is the value an evaluation would return now.
dance(fs, fid, q) ==
    IF fs[fid].quality = None THEN [fs EXCEPT ![fid].quality = <<q>>] ELSE fs

quality(fs, fid) == fs[fid].quality[1]

\* The role change with the list.remove call left out.
remove_nothing(list, x) == list

\* list.remove(x): the list without its first element equal to x.
remove(list, x) ==
    IF \E k \in 1..Len(list) : list[k] = x
    THEN LET p == CHOOSE k \in 1..Len(list) :
                      list[k] = x /\ \A j \in 1..(k - 1) : list[j] # x
         IN  [k \in 1..(Len(list) - 1) |-> IF k < p THEN list[k] ELSE list[k + 1]]
    ELSE list

\* generate_new_food line 271: start, end = food_source_ranges unpacks the rows.
unpacks(shape) == shape[1] = 2

\* rng.uniform(start, end): a vector with one coordinate per column.
new_location(shape, at) == [dim |-> shape[2], at |-> at]

\* single(): a copy of the location with one coordinate changed.
single(location, at) == [dim |-> location.dim, at |-> at]

\* The shape test reduced to the number of axes.
wrong_shape_ndim(shape) == Len(shape) # 2

\* line 47: the shape is refused when neither axis has length 2.
wrong_shape(shape) == shape[2] # 2 /\ shape[1] # 2

\* max(workers, key=quality): the first worker of maximal quality.
max_worker(fs, ws) ==
    CHOOSE k \in 1..Len(ws) :
        /\ \A j \in 1..Len(ws) : quality(fs, ws[j].food) <= quality(fs, ws[k].food)
        /\ \A j \in 1..(k - 1) : quality(fs, ws[j].food) < quality(fs, ws[k].food)

RECURSIVE SumAbs(_, _)
SumAbs(rows, n) == IF n = 0 THEN 0 ELSE rows[n][2] + SumAbs(rows, n - 1)

\* ------------------------------------------------------------------- Init
Shapes == (1..MaxDim) \X (1..MaxDim)

Deterministic == [1..NumLocs -> {{v} : v \in ObjVals}]

Stochastic == [1..1 -> {ObjVals}]

Flat == [1..1 -> {{0}}]

\* One region where each call returns 0 or 1.
Noisy == [1..1 -> {{0, 1}}]

\* line 54
default_n_workers(nb) == nb \div 2

Running ==
    /\ pc = "start"
    /\ error = "none"
    /\ i = 0
    /\ idx = 0
    /\ foods = <<>>
    /\ workers = <<>>
    /\ onlookers = <<>>
    /\ scouts = <<>>
    /\ nextBee = 1
    /\ best_quality_food = 0
    /\ choreography = <<>>
    /\ sum_dances = 0
    /\ probabilities = None
    /\ calls = 0
    /\ new_solution_evaluation = None
    /\ snapshots = <<>>

Init ==
    /\ search_space = <<2, 2>>
    /\ minimize \in BOOLEAN
    /\ n_workers \in 1..MaxWorkers
    /\ n_bees \in n_workers..(n_workers + MaxOnlookers)
    /\ n_scouts \in 0..MaxScouts
    /\ max_iter \in 0..MaxIter
    /\ limit \in 0..MaxLimit
    /\ obj_func \in Deterministic \cup Stochastic
    /\ Running

\* Every shape of the bounds array, rows by columns, up to MaxDim.
InitShapes ==
    /\ search_space \in Shapes
    /\ minimize = FALSE
    /\ n_workers = MaxWorkers
    /\ n_bees = n_workers + 1
    /\ n_scouts = 1
    /\ max_iter = 1
    /\ limit \in 1..MaxLimit
    /\ obj_func \in Deterministic
    /\ Running

\* The flat objective f(x) = 0 under the default configuration.
InitFlat ==
    /\ search_space = <<2, 2>>
    /\ minimize = FALSE
    /\ n_bees = DefaultNBees
    /\ n_workers = default_n_workers(n_bees)
    /\ n_scouts = DefaultNScouts
    /\ max_iter = FlatIter
    /\ limit = DefaultLimit
    /\ obj_func \in Flat
    /\ Running

\* Larger hives on an objective whose value differs between calls, so that
\* every order of adoptions, deposits and exhaustions happens.
InitColony ==
    /\ search_space = <<2, 2>>
    /\ minimize = FALSE
    /\ n_workers \in 2..ColonyWorkers
    /\ n_bees = n_workers + 1
    /\ n_scouts \in 0..ColonyScouts
    /\ max_iter = ColonyIter
    /\ limit \in 0..ColonyLimit
    /\ obj_func \in Noisy
    /\ Running

\* ------------------------------------------------------------ start-up
raise(e) ==
    /\ pc' = "raised"
    /\ error' = e

\* lines 46-50
CheckSearchSpace ==
    /\ pc = "start"
    /\ IF wrong_shape(search_space)
       THEN raise("ValueError: search_space is of wrong shape")
       ELSE pc' = "hive" /\ error' = error
    /\ UNCHANGED <<config, new_solution_evaluation, i, idx, foods, workers,
                   onlookers, scouts, nextBee, best_quality_food,
                   choreography, sum_dances, probabilities, calls, snapshots>>

\* The n bees constructed from identity `from` on, none holding food.
new_bees(from, n) == [k \in 1..n |-> Bee(from + k - 1, 0)]

Positive(n) == IF n < 0 THEN 0 ELSE n

\* lines 60-66
InitHive ==
    /\ pc = "hive"
    /\ LET no == Positive(n_bees - n_workers)
       IN  /\ scouts' = new_bees(nextBee, n_scouts)
           /\ onlookers' = new_bees(nextBee + n_scouts, no)
           /\ workers' = new_bees(nextBee + n_scouts + no, n_workers)
           /\ nextBee' = nextBee + n_scouts + no + n_workers
    /\ pc' = "foods"
    /\ UNCHANGED <<config, new_solution_evaluation, error, i, idx, foods,
                   best_quality_food, choreography, sum_dances, probabilities,
                   calls, snapshots>>

\* lines 68-81: the initial foods, the workers sent to them, the initial best.
InitFoods ==
    /\ pc = "foods"
    /\ IF ~unpacks(search_space)
       THEN /\ raise("ValueError: unpack")
            /\ UNCHANGED <<foods, workers, best_quality_food, calls>>
       ELSE \E at \in [1..n_workers -> Locs] :
            \E q \in [1..n_workers -> FitnessVals] :
               /\ \A k \in 1..n_workers : q[k] \in fitness(at[k])
               /\ LET initial_foods ==
                          [k \in 1..n_workers |->
                              Food(new_location(search_space, at[k]), None, limit)]
                      sent == [k \in 1..n_workers |-> Bee(workers[k].id, k)]
                      danced == [k \in 1..n_workers |->
                                    dance(initial_foods, k, q[k])[k]]
                  IN  /\ foods' = danced
                      /\ workers' = sent
                      /\ calls' = calls + n_workers
                      /\ best_quality_food' = sent[max_worker(danced, sent)].food
               /\ error' = error
               /\ pc' = IF max_iter > 0 THEN "workers" ELSE "done"
    /\ UNCHANGED <<config, new_solution_evaluation, i, idx, onlookers, scouts,
                   nextBee, choreography, sum_dances, probabilities,
                   snapshots>>

\* ------------------------------------------------------- the three phases
\* The loop over a snapshot of the list: a removed element does not move the
\* position past its successor.
advance_over_copy(position, before, after) ==
    position + 1 - (IF Len(after) < Len(before) THEN Len(before) - Len(after) ELSE 0)

\* for x in list (lines 84, 140, 164): the list iterator moves on by one
\* position after every pass, whatever the body did to the list.
advance(position, before, after) == position + 1

\* Worker.leave_food_point (lines 245-247): the Scout it returns.
Worker_leave_food_point(id) == Bee(id, 0)

\* leave_food_point without self.food = None: the onlooker keeps its food.
Onlooker_keeps_food(bee) == bee

\* Onlooker.leave_food_point (lines 252-253): the onlooker without its food.
Onlooker_leave_food_point(bee) == Bee(bee.id, 0)

\* convert_worker without food=self.food: the new Worker holds nothing.
convert_worker_no_food(id, scout_food) == Bee(id, 0)

\* Scout.convert_worker (lines 265-266): a Worker on the scout's food.
convert_worker(id, scout_food) == Bee(id, scout_food)

\* look_around that gives the neighbour one unit of food.
look_around_stocked(fs, bee, at) == Food(single(fs[bee.food].location, at), None, 1)

\* EmployedBee.look_around (lines 231-234): Food(new_location), no quality, quantity 0.
look_around(fs, bee, at) == Food(single(fs[bee.food].location, at), None, 0)

\* The comparison of lines 104 and 149 with >= in place of >.
better_or_equal(evaluation, q) == evaluation >= q

\* lines 104 and 149: the neighbour replaces the source when strictly better.
better(evaluation, q) == evaluation > q

\* lines 107-108 and 152-153: the best food after a bee adopted food `new`.
new_best(fs, best, new, evaluation) ==
    IF better(evaluation, quality(fs, best)) THEN new ELSE best

\* lines 84-114: one pass of the worker loop's body.
\*   q  : what evaluating the worker's food returns (line 96)
\*   at : the neighbour's region (line 99)
\*   e  : what evaluating the neighbour returns (line 101)
\*   q2 : what evaluating it again in dance returns (line 106)
WorkerStep ==
    /\ pc = "workers"
    /\ idx < Len(workers)
    /\ LET worker == workers[idx + 1]
       IN  IF should_leave(foods, worker)
           THEN /\ scouts' = Append(scouts, Worker_leave_food_point(nextBee))
                /\ workers' = remove(workers, worker)
                /\ nextBee' = nextBee + 1
                /\ UNCHANGED <<foods, best_quality_food, calls,
                               new_solution_evaluation>>
           ELSE \E q \in calculate_nectar(foods[worker.food].location) :
                \E at \in Locs :
                \E e \in fitness(at) :
                \E q2 \in fitness(at) :
                  LET fs1 == dance(foods, worker.food, q)
                      n1 == IF dance_evaluates(foods, worker.food) THEN 1 ELSE 0
                      new == Len(foods) + 1
                  IN  /\ new_solution_evaluation' = <<e>>
                      /\ IF better(e, quality(fs1, worker.food))
                         THEN LET fs2 == Append(fs1, look_around(fs1, worker, at))
                                  fs3 == dance(fs2, new, q2)
                              IN  /\ foods' = fs3
                                  /\ workers' = [workers EXCEPT ![idx + 1].food = new]
                                  /\ best_quality_food' =
                                         new_best(fs3, best_quality_food, new, e)
                                  /\ calls' = calls + n1 + 2
                                  /\ UNCHANGED <<scouts, nextBee>>
                         ELSE LET fs2 == bring_food(fs1, worker)
                              IN  /\ foods' = fs2
                                  /\ calls' = calls + n1 + 1
                                  /\ best_quality_food' = best_quality_food
                                  /\ IF should_leave(fs2, worker)
                                     THEN /\ scouts' = Append(scouts,
                                                        Worker_leave_food_point(nextBee))
                                          /\ workers' = remove(workers, worker)
                                          /\ nextBee' = nextBee + 1
                                     ELSE UNCHANGED <<scouts, workers, nextBee>>
    /\ idx' = advance(idx, workers, workers')
    /\ UNCHANGED <<config, pc, error, i, onlookers, choreography, sum_dances,
                   probabilities, snapshots>>

\* The foods of the workers that have no quality yet.
undanced(fs, ws) == {ws[k].food : k \in {j \in 1..Len(ws) : fs[ws[j].food].quality = None}}

\* The probabilities without the test for a zero sum.
roulette_always_divides(rows, total) ==
    [k \in 1..Len(rows) |-> <<rows[k][2], total>>]

\* The fraction bits of a float64.
Mantissa == 52

\* (a * 2^n) mod s, by doubling.
RECURSIVE shifted_remainder(_, _, _)
shifted_remainder(a, n, s) ==
    IF n = 0 THEN a % s ELSE (2 * shifted_remainder(a, n - 1, s)) % s

\* For 0 < a <= s: the j with s <= a * 2^j < 2 * s; the float64 nearest to
\* a / s is a multiple of 2^-(Mantissa + j).
RECURSIVE binade(_, _)
binade(a, s) == IF a >= s THEN 0 ELSE 1 + binade(2 * a, s)

\* A division of float64 that rounds toward zero.
divide_truncates(a, s) ==
    IF a = 0 THEN <<0, s, 0, 0>>
    ELSE LET j == binade(a, s)
         IN  <<a, s, j, 0 - shifted_remainder(a, Mantissa + j, s)>>

\* np.divide(...).astype('float64') (line 136) of the integers 0 <= a <= s:
\* the float64 nearest to a / s, ties to even, as <<a, s, j, error>>, the
\* value a / s + error / (s * 2^(Mantissa + j)).
divide(a, s) ==
    IF a = 0 THEN <<0, s, 0, 0>>
    ELSE LET j == binade(a, s)
             r == shifted_remainder(a, Mantissa + j, s)
             odd == 2 * shifted_remainder(a, Mantissa + j - 1, s) >= s
             up == 2 * r > s \/ (2 * r = s /\ odd)
         IN  <<a, s, j, IF up THEN s - r ELSE 0 - r>>

\* lines 132-136
roulette(rows, total) ==
    IF total = 0 THEN None
    ELSE [k \in 1..Len(rows) |-> divide(rows[k][2], total)]

\* lines 116-138: the worker loop is over; the workers dance and the
\* probabilities are computed.  np.array([]) of no worker has one axis, and
\* choreography[:, 1] raises IndexError.
Choreography ==
    /\ pc = "workers"
    /\ idx >= Len(workers)
    /\ IF Len(workers) = 0
       THEN /\ raise("IndexError: too many indices for array")
            /\ UNCHANGED <<foods, choreography, sum_dances, probabilities, calls, idx>>
       ELSE \E q \in [undanced(foods, workers) -> FitnessVals] :
               /\ \A f \in DOMAIN q : q[f] \in calculate_nectar(foods[f].location)
               /\ LET fs == [f \in 1..Len(foods) |->
                                IF f \in DOMAIN q THEN dance(foods, f, q[f])[f]
                                ELSE foods[f]]
                      rows == [k \in 1..Len(workers) |->
                                  <<workers[k].food, Abs(quality(fs, workers[k].food))>>]
                      total == SumAbs(rows, Len(rows))
                  IN  /\ foods' = fs
                      /\ calls' = calls + Cardinality(DOMAIN q)
                      /\ choreography' = rows
                      /\ sum_dances' = total
                      /\ probabilities' = roulette(rows, total)
               /\ pc' = "onlookers"
               /\ error' = error
               /\ idx' = 0
    /\ UNCHANGED <<config, new_solution_evaluation, i, workers, onlookers,
                   scouts, nextBee, best_quality_food, snapshots>>

\* rng.choice(a, p): the rows that can be drawn (every row when p is None).
choice(rows, p) ==
    {k \in 1..Len(rows) : p = None \/ p[k][1] > 0}

\* lines 140-160: one pass of the onlooker loop's body.
OnlookerStep ==
    /\ pc = "onlookers"
    /\ idx < Len(onlookers)
    /\ \E k \in choice(choreography, probabilities) :
       LET onlooker == Bee(onlookers[idx + 1].id, choreography[k][1])
       IN  \E q \in calculate_nectar(foods[onlooker.food].location) :
           \E at \in Locs :
           \E e \in fitness(at) :
           \E q2 \in fitness(at) :
             LET fs1 == dance(foods, onlooker.food, q)
                 n1 == IF dance_evaluates(foods, onlooker.food) THEN 1 ELSE 0
                 new == Len(foods) + 1
             IN  /\ new_solution_evaluation' = <<e>>
                 /\ IF better(e, quality(fs1, onlooker.food))
                    THEN LET fs2 == Append(fs1, look_around(fs1, onlooker, at))
                             fs3 == dance(fs2, new, q2)
                         IN  /\ foods' = fs3
                             /\ onlookers' = [onlookers EXCEPT ![idx + 1] =
                                                 Bee(onlooker.id, new)]
                             /\ best_quality_food' =
                                    new_best(fs3, best_quality_food, new, e)
                             /\ calls' = calls + n1 + 2
                    ELSE LET fs2 == IF has_food(fs1[onlooker.food])
                                    THEN bring_food(fs1, onlooker) ELSE fs1
                         IN  /\ foods' = fs2
                             /\ calls' = calls + n1 + 1
                             /\ best_quality_food' = best_quality_food
                             /\ onlookers' = [onlookers EXCEPT ![idx + 1] =
                                    IF should_leave(fs2, onlooker)
                                    THEN Onlooker_leave_food_point(onlooker)
                                    ELSE onlooker]
    /\ idx' = advance(idx, onlookers, onlookers')
    /\ UNCHANGED <<config, pc, error, i, workers, scouts, nextBee, choreography,
                   sum_dances, probabilities, snapshots>>

\* line 164: the onlooker loop is over, the scout loop starts.
ScoutsPhase ==
    /\ pc = "onlookers"
    /\ idx >= Len(onlookers)
    /\ pc' = "scouts"
    /\ idx' = 0
    /\ UNCHANGED <<config, new_solution_evaluation, error, i, foods, workers,
                   onlookers, scouts, nextBee, best_quality_food,
                   choreography, sum_dances, probabilities, calls, snapshots>>

\* Scout.find_new_food (lines 261-263): generate_new_food(ranges, 1, quantity)[0]
find_new_food(shape, at, quantity) == Food(new_location(shape, at), None, quantity)

\* lines 164-170: one pass of the scout loop's body.
ScoutStep ==
    /\ pc = "scouts"
    /\ idx < Len(scouts)
    /\ \E at \in Locs :
       LET scout == scouts[idx + 1]
           new == Len(foods) + 1
       IN  /\ foods' = Append(foods, find_new_food(search_space, at, limit))
           /\ scouts' = remove(scouts, scout)
           /\ workers' = Append(workers, convert_worker(nextBee, new))
           /\ nextBee' = nextBee + 1
    /\ idx' = advance(idx, scouts, scouts')
    /\ UNCHANGED <<config, new_solution_evaluation, pc, error, i, onlookers,
                   best_quality_food, choreography, sum_dances, probabilities,
                   calls, snapshots>>

\* line 174: the scout loop is over, the snapshot is yielded.
Yield ==
    /\ pc = "scouts"
    /\ idx >= Len(scouts)
    /\ snapshots' = Append(snapshots, <<i, best_quality_food>>)
    /\ pc' = "yielded"
    /\ UNCHANGED <<config, new_solution_evaluation, error, i, idx, foods,
                   workers, onlookers, scouts, nextBee, best_quality_food,
                   choreography, sum_dances, probabilities, calls>>

\* line 81: the consumer asks for the next snapshot; range(max_iter) goes on or ends.
Resume ==
    /\ pc = "yielded"
    /\ IF i + 1 < max_iter
       THEN /\ i' = i + 1
            /\ pc' = "workers"
            /\ idx' = 0
       ELSE /\ pc' = "done"
            /\ UNCHANGED <<i, idx>>
    /\ UNCHANGED <<config, new_solution_evaluation, error, foods, workers,
                   onlookers, scouts, nextBee, best_quality_food,
                   choreography, sum_dances, probabilities, calls, snapshots>>

Next ==
    \/ CheckSearchSpace
    \/ InitHive
    \/ InitFoods
    \/ WorkerStep
    \/ Choreography
    \/ OnlookerStep
    \/ ScoutsPhase
    \/ ScoutStep
    \/ Yield
    \/ Resume

Spec == Init /\ [][Next]_vars

SpecShapes == InitShapes /\ [][Next]_vars

SpecFlat == InitFlat /\ [][Next]_vars

SpecColony == InitColony /\ [][Next]_vars

\* ================================================================ claims
IsDeterministic == \A at \in Locs : Cardinality(obj_func[at]) = 1

\* The quality of the food of the k-th snapshot yielded.
snapshot_quality(k) == quality(foods, snapshots[k][2])

AfterWorkerPhase == pc = "workers" /\ idx >= Len(workers)

AfterOnlookerPhase == pc = "onlookers" /\ idx >= Len(onlookers)

AfterScoutPhase == (pc = "scouts" /\ idx >= Len(scouts)) \/ pc = "yielded"

BetweenPhases == AfterWorkerPhase \/ AfterOnlookerPhase \/ AfterScoutPhase

HiveBuilt == pc \notin {"start", "hive"}

ids(list) == {list[k].id : k \in 1..Len(list)}

\* C1: across the snapshots yielded, the quality of the best food never
\* decreases, for any objective (also one whose value differs between two
\* evaluations of the same location).
C1_BestNeverDecreases ==
    \A k \in 2..Len(snapshots) : snapshot_quality(k) >= snapshot_quality(k - 1)

\* C2: whenever a snapshot is yielded, the best food's quality is at least the
\* cached quality of every food a Worker or Onlooker has held and disclosed by
\* dance since the start (the foods with a quality are exactly those), also
\* the foods found by Scouts.  Stated for deterministic objectives.
C2_BestIsHighestDisclosed ==
    (pc = "yielded" /\ IsDeterministic) =>
        \A f \in 1..Len(foods) :
            foods[f].quality # None =>
                quality(foods, best_quality_food) >= quality(foods, f)

\* C3: with a valid search space, n_workers >= 1, n_bees >= n_workers,
\* n_scouts >= 0 and limit >= 0 no phase raises an error, and a run that is
\* over has yielded exactly max_iter snapshots, numbered 0 .. max_iter-1.
C3_RunsMaxIterIterations ==
    /\ error = "none"
    /\ pc = "done" =>
          /\ Len(snapshots) = max_iter
          /\ \A k \in 1..Len(snapshots) : snapshots[k][1] = k - 1

\* C4: between two phases every worker of the hive holds a food, no scout
\* holds one, and no two workers hold the same food.
C4_WorkersHoldDistinctFoods ==
    BetweenPhases =>
        /\ \A k \in 1..Len(workers) : workers[k].food # 0
        /\ \A k \in 1..Len(scouts) : scouts[k].food = 0
        /\ Cardinality({workers[k].food : k \in 1..Len(workers)}) = Len(workers)

\* A scout phase has ended with a scout left in the list and a worker that was
\* converted from a scout.
C4_Witness ==
    /\ pc = "yielded"
    /\ Len(scouts) > 0
    /\ \E k \in 1..Len(workers) : workers[k].id > n_scouts + n_bees

\* C5: role changes are one for one.  Once the hive is built the workers and
\* scouts number n_workers + n_scouts together, the three lists hold pairwise
\* different bees, and a step that shortens one of the two lists by a bee
\* lengthens the other by exactly one.
C5_HiveCount ==
    HiveBuilt =>
        /\ Len(workers) + Len(scouts) = n_workers + n_scouts
        /\ ids(workers) \cap ids(scouts) = {}
        /\ ids(workers) \cap ids(onlookers) = {}
        /\ ids(scouts) \cap ids(onlookers) = {}
        /\ Cardinality(ids(workers) \cup ids(scouts) \cup ids(onlookers))
              = Len(workers) + Len(scouts) + Len(onlookers)

C5_OneForOne ==
    /\ []C5_HiveCount
    /\ [][/\ ids(workers) \ ids(workers') # {} =>
                /\ Cardinality(ids(workers) \ ids(workers')) = 1
                /\ Len(scouts') = Len(scouts) + 1
          /\ ids(scouts) \ ids(scouts') # {} =>
                /\ Cardinality(ids(scouts) \ ids(scouts')) = 1
                /\ Len(workers') = Len(workers) + 1]_vars

\* A worker has become a scout and a scout has become a worker.
C5_Witness ==
    /\ pc = "yielded"
    /\ \E k \in 1..Len(scouts) : scouts[k].id > n_scouts + n_bees
    /\ \E k \in 1..Len(workers) : workers[k].id > n_scouts + n_bees

\* C6: a search space with neither axis of length 2 ends the run with the
\* validation error before the hive is built, before any food is created or
\* the objective evaluated, and before any snapshot.
C6_WrongShapeRaisesFirst ==
    (search_space[1] # 2 /\ search_space[2] # 2 /\ pc # "start") =>
        /\ pc = "raised"
        /\ error = "ValueError: search_space is of wrong shape"
        /\ workers = <<>> /\ onlookers = <<>> /\ scouts = <<>>
        /\ foods = <<>>
        /\ calls = 0
        /\ snapshots = <<>>

\* The 3x3 search space has been refused.
C6_Witness == search_space = <<3, 3>> /\ pc = "raised"

\* C7: a 2xD and a Dx2 search space both pass validation and let the run go
\* on without any error, with D-dimensional foods.
C7_BothLayoutsAccepted ==
    (search_space[1] = 2 \/ search_space[2] = 2) =>
        /\ error = "none"
        /\ \A f \in 1..Len(foods) :
              foods[f].location.dim =
                  IF search_space[1] = 2 THEN search_space[2] ELSE search_space[1]

\* C8: for the flat objective under the default configuration every onlooker
\* phase takes the uniform fallback (the sum is zero, no division), and the
\* run yields all its max_iter snapshots without error.
C8_FlatObjectiveFallsBack ==
    /\ error = "none"
    /\ pc = "onlookers" => (sum_dances = 0 /\ probabilities = None)
    /\ pc = "done" => Len(snapshots) = max_iter

\* The run on the flat objective is over, all onlookers having chosen.
C8_Witness ==
    /\ pc = "done"
    /\ Len(snapshots) = FlatIter
    /\ Len(choreography) > 0
    /\ n_bees = DefaultNBees

\* The probability of row k, as a numerator over the common denominator: the
\* weight over the sum, or 1 over 1 for every row when probabilities is None.
numerator(k) == IF probabilities = None THEN 1 ELSE probabilities[k][1]

\* C9: in an onlooker phase a disclosed food of higher quality is selected
\* with at least the probability of one of lower quality, also when
\* minimize makes the qualities negative.
C9_BetterFoodMoreLikely ==
    pc = "onlookers" =>
        \A a, b \in 1..Len(choreography) :
            quality(foods, choreography[a][1]) > quality(foods, choreography[b][1])
                => numerator(a) >= numerator(b)

\* The objective is called once by calculate_nectar in a step that looks around.
LooksAround ==
    \/ pc = "onlookers" /\ idx < Len(onlookers)
    \/ pc = "workers" /\ idx < Len(workers) /\ ~should_leave(foods, workers[idx + 1])

\* C10: a quality that is set is never changed, and dance on a food with a
\* quality does not call the objective: the calls of a step are the one of
\* calculate_nectar, if it looks around, and one per quality newly set.
C10_QualityComputedOnce ==
    [][/\ \A f \in 1..Len(foods) :
              foods[f].quality # None =>
                  (f <= Len(foods') /\ foods'[f].quality = foods[f].quality)
       /\ calls' - calls =
              Cardinality({f \in 1..Len(foods') :
                              /\ foods'[f].quality # None
                              /\ (f > Len(foods) \/ foods[f].quality = None)})
              + (IF LooksAround THEN 1 ELSE 0)]_vars

\* An onlooker has danced on a food whose quality was cached, under an
\* objective that would return another value.
C10_Witness ==
    /\ pc = "onlookers"
    /\ idx > 0
    /\ ~IsDeterministic
    /\ onlookers[idx].food # 0
    /\ foods[onlookers[idx].food].quantity < limit

\* C12: no worker is skipped by the worker loop.  After every pass, the worker
\* that followed the processed one in the list is the next one the loop
\* takes, also when the processed worker was removed from the list.
C12_NoWorkerSkipped ==
    [][(pc = "workers" /\ idx + 1 < Len(workers)) =>
          /\ idx' + 1 <= Len(workers')
          /\ workers'[idx' + 1].id = workers[idx + 2].id]_vars

\* C13: every scout of the scout phase is converted, so no scout is left in
\* the list when the snapshot is yielded.
C13_NoScoutLeftAtYield == pc = "yielded" => scouts = <<>>

\* The onlookers constructed at lines 63-64, by identity.
initial_onlookers == (n_scouts + 1)..(n_scouts + n_bees - n_workers)

C14_OnlookersFixed ==
    HiveBuilt =>
        /\ Len(onlookers) = n_bees - n_workers
        /\ ids(onlookers) = initial_onlookers

\* C14: the onlooker phase leaves the membership of the three lists alone.
\* The onlookers are the same n_bees - n_workers bees in every state, and a
\* pass of the onlooker loop changes no worker and no scout, constructs no
\* bee and changes only the processed onlooker's food reference, the foods'
\* quantities and qualities (and the adopted neighbour) and the best food; an
\* onlooker whose source is exhausted after the pass has released it.
C14_OnlookerPhaseFrame ==
    /\ []C14_OnlookersFixed
    /\ [][(pc = "onlookers" /\ idx < Len(onlookers)) =>
             /\ workers' = workers
             /\ scouts' = scouts
             /\ nextBee' = nextBee
             /\ Len(onlookers') = Len(onlookers)
             /\ \A k \in 1..Len(onlookers) :
                   /\ onlookers'[k].id = onlookers[k].id
                   /\ k # idx + 1 => onlookers'[k] = onlookers[k]
             /\ Len(foods') >= Len(foods)
             /\ \A f \in 1..Len(foods) : foods'[f].location = foods[f].location
             /\ (Len(foods') = Len(foods) /\ onlookers'[idx + 1].food # 0) =>
                   has_food(foods'[onlookers'[idx + 1].food])
             /\ UNCHANGED <<config, pc, error, i, choreography, sum_dances,
                            probabilities, snapshots>>]_vars

\* An onlooker has been processed and has released its exhausted source.
C14_Witness ==
    /\ pc = "onlookers"
    /\ idx > 0
    /\ onlookers[idx].food = 0

\* A pass of the worker loop that reaches look_around (line 99).
WorkerLooksAround ==
    pc = "workers" /\ idx < Len(workers) /\ ~should_leave(foods, workers[idx + 1])

\* A pass of the onlooker loop.
OnlookerLooksAround == pc = "onlookers" /\ idx < Len(onlookers)

\* The sources an onlooker can be given by choose_preferred_source.
selectable == {choreography[k][1] : k \in choice(choreography, probabilities)}

\* The best food after a pass that adopted food `new` on evaluation e, or not.
best_replaced_strictly(new, e) ==
    IF e > quality(foods, best_quality_food)
    THEN best_quality_food' = new
    ELSE best_quality_food' = best_quality_food

\* The foods other than c are the same after the pass.
others_unchanged(c) ==
    \A f \in 1..Len(foods) : f # c => foods'[f] = foods[f]

RECURSIVE total_weight(_)
total_weight(n) ==
    IF n = 0 THEN 0 ELSE Abs(quality(foods, workers[n].food)) + total_weight(n - 1)

RECURSIVE two_to(_)
two_to(n) == IF n = 0 THEN 1 ELSE 2 * two_to(n - 1)

\* The largest j among the probabilities.
finest == CHOOSE j \in {probabilities[k][3] : k \in 1..Len(probabilities)} :
              \A k \in 1..Len(probabilities) : probabilities[k][3] <= j

\* The sum of the first n probabilities minus the sum of their exact
\* quotients, in units of 1 / (sum_dances * 2^(Mantissa + finest)).
RECURSIVE sum_error(_)
sum_error(n) ==
    IF n = 0 THEN 0
    ELSE probabilities[n][4] * two_to(finest - probabilities[n][3]) + sum_error(n - 1)

\* The sum of the first n numerators.
RECURSIVE sum_numerators(_)
sum_numerators(n) == IF n = 0 THEN 0 ELSE probabilities[n][1] + sum_numerators(n - 1)

C18_AdoptedNeighbourIsExhausted ==
    /\ [][(pc \in {"workers", "onlookers"} /\ Len(foods') # Len(foods)) =>
             /\ Len(foods') = Len(foods) + 1
             /\ is_exhausted(foods'[Len(foods')])
             /\ IF pc = "workers"
                THEN workers'[idx + 1] = Bee(workers[idx + 1].id, Len(foods'))
                ELSE onlookers'[idx + 1] = Bee(onlookers[idx + 1].id, Len(foods'))]_vars
    /\ [][\A f \in 1..Len(foods) :
             is_exhausted(foods[f]) => is_exhausted(foods'[f])]_vars
    /\ [][(/\ pc = "workers"
           /\ idx < Len(workers)
           /\ is_exhausted(foods[workers[idx + 1].food])) =>
             /\ workers[idx + 1].id \notin ids(workers')
             /\ Len(workers') = Len(workers) - 1
             /\ Len(scouts') = Len(scouts) + 1
             /\ scouts'[Len(scouts')].food = 0
             /\ UNCHANGED <<foods, calls, best_quality_food,
                            new_solution_evaluation>>]_vars

\* The first worker adopted a neighbour in iteration 0 (no initial food has
\* lost a unit, and limit is positive) and was converted to a scout when it
\* was processed in iteration 1.
C18_Witness ==
    /\ pc = "workers"
    /\ i = 1
    /\ idx = 1
    /\ limit > 0
    /\ Len(scouts) = 1
    /\ \A f \in 1..n_workers : foods[f].quantity = limit
    /\ \E f \in 1..Len(foods) :
          /\ is_exhausted(foods[f])
          /\ \A k \in 1..Len(workers) : workers[k].food # f

\* C19: with n_workers >= 2 the workers list holds at least 2 workers when a
\* worker phase starts and at least 1 when it ends and all through the
\* onlooker phase, so choreography is never empty and line 127 never raises.
C19_WorkersNeverRunOut ==
    n_workers >= 2 =>
        /\ (pc = "workers" /\ idx = 0) => Len(workers) >= 2
        /\ AfterWorkerPhase => Len(workers) >= 1
        /\ pc = "onlookers" => (Len(workers) >= 1 /\ Len(choreography) >= 1)
        /\ error # "IndexError: too many indices for array"

\* A worker phase of a later iteration has ended with a single worker left,
\* two or more scouts waiting for the scout phase.
C19_Witness ==
    /\ AfterWorkerPhase
    /\ i >= 1
    /\ n_workers >= 2
    /\ Len(workers) = 1
    /\ Len(scouts) >= 2
====
